---- MODULE Spec2Model ----
(***************************************************************************)
(* Model of the LiveKit voice app: the Control & Token Service             *)
(* (backend/token_server.py) and the Session Orchestrator                  *)
(* (backend/agent.py), which share one configuration file, config.yaml.    *)
(***************************************************************************)
EXTENDS Naturals, Sequences, FiniteSets, TLC

\* ------------------------------------------------------------------------
\* Bounds of the model
\* ------------------------------------------------------------------------

\* update_system_prompt payloads are the texts <<"text", 1>> .. <<"text", MaxPayload>>
MaxPayload == 2

\* ------------------------------------------------------------------------
\* The configuration document (config.yaml)
\* ------------------------------------------------------------------------

\* Control Service processes that loaded config.yaml at import time.  The
\* repository runs one (Primary); a second one shares the file in SpecWriters.
Services == {"svc1", "svc2"}

Primary == "svc1"

\* llm.models: the catalog of allowed model identifiers
ModelCatalog ==
    << [id |-> "gpt-4o-mini", label |-> "GPT-4o mini"],
       [id |-> "gemini-2.0-flash", label |-> "Gemini 2.0 Flash"] >>

\* tts.voices: the catalog of allowed voices, each naming its engine
VoiceCatalog ==
    << [id |-> "kokoro_af_heart", label |-> "Kokoro", engine |-> "kokoro"],
       [id |-> "cartesia_sonic", label |-> "Cartesia", engine |-> "cartesia"],
       [id |-> "piper_amy", label |-> "Piper", engine |-> "piper"],
       [id |-> "text_only", label |-> "Text Only", engine |-> "none"] >>

\* tts.engine values a configuration file may hold: the three engines
\* _build_tts knows and one it does not
EngineNames == {"cartesia", "kokoro", "piper", "espeak"}

DefaultPrompt == <<"default", 0>>

RoomName == "voice-room"

\* the parsed document, as yaml.safe_load returns it
MkConfig(model, voice, engine) ==
    [app |-> [default_system_prompt |-> DefaultPrompt, room_name |-> RoomName],
     llm |-> [model |-> model, models |-> ModelCatalog],
     tts |-> [voice |-> voice, voices |-> VoiceCatalog, engine |-> engine]]

\* {m["id"] for m in config["llm"].get("models", [])}
ModelIds(cfg) == {cfg.llm.models[i].id : i \in DOMAIN cfg.llm.models}

\* {v["id"] for v in config["tts"].get("voices", [])}
VoiceIds(cfg) == {cfg.tts.voices[i].id : i \in DOMAIN cfg.tts.voices}

\* The file is a flat text: one line per leaf of the document, in document
\* order.  yaml.dump writes the whole document; yaml.safe_load reads it back.
YamlKeys ==
    << <<"app", "default_system_prompt">>, <<"app", "room_name">>,
       <<"llm", "model">>, <<"llm", "models">>,
       <<"tts", "voice">>, <<"tts", "voices">>, <<"tts", "engine">> >>

YamlDump(cfg) ==
    [i \in DOMAIN YamlKeys |->
        [key |-> YamlKeys[i], value |-> cfg[YamlKeys[i][1]][YamlKeys[i][2]]]]

YamlGet(doc, section, field) ==
    LET i == CHOOSE j \in DOMAIN doc : doc[j].key = <<section, field>>
    IN  doc[i].value

YamlLoad(doc) ==
    [app |-> [default_system_prompt |-> YamlGet(doc, "app", "default_system_prompt"),
              room_name |-> YamlGet(doc, "app", "room_name")],
     llm |-> [model |-> YamlGet(doc, "llm", "model"),
              models |-> YamlGet(doc, "llm", "models")],
     tts |-> [voice |-> YamlGet(doc, "tts", "voice"),
              voices |-> YamlGet(doc, "tts", "voices"),
              engine |-> YamlGet(doc, "tts", "engine")]]

\* ------------------------------------------------------------------------
\* State
\* ------------------------------------------------------------------------

VARIABLES
    config,     \* token_server.config: each service's in-memory document
    disk,       \* the text of config.yaml
    resp,       \* the last HTTP response a service sent
    ackModel,   \* history: the id of the last acknowledged set_model, or None
    ackVoice,   \* history: the id of the last acknowledged set_voice, or None
    session     \* the agent job of the current real-time session

vars == <<config, disk, resp, ackModel, ackVoice, session>>

None == "<none>"


\* ------------------------------------------------------------------------
\* Control & Token Service: token_server.py
\* ------------------------------------------------------------------------

Identities == {"alice", "bob"}

\* ids a client may send: every catalog id and one id outside the catalog
ModelRequests == {ModelCatalog[i].id : i \in DOMAIN ModelCatalog} \cup {"no-such-model"}

VoiceRequests == {VoiceCatalog[i].id : i \in DOMAIN VoiceCatalog} \cup {"no-such-voice"}

\* outcome of urllib.request.urlopen(health_url, timeout=3)
ProbeOutcomes == {"responded", "unreachable", "timeout"}

NoResponse == [op |-> None, svc |-> None, arg |-> None, status |-> 0, body |-> [none |-> TRUE]]

HttpResponse(op, p, arg, status, body) ==
    [op |-> op, svc |-> p, arg |-> arg, status |-> status, body |-> body]

\* get_token that grants no right to publish
AccessTokenNoPublish(cfg, identity) ==
    [identity |-> identity,
     kind |-> "standard",
     grants |-> [room_join |-> TRUE, room |-> cfg.app.room_name,
                 can_publish |-> FALSE, can_subscribe |-> TRUE],
     agents |-> << [agent_name |-> ""] >>]

\* get_token: the credential, before signing
AccessToken(cfg, identity) ==
    [identity |-> identity,
     kind |-> "standard",
     grants |-> [room_join |-> TRUE, room |-> cfg.app.room_name,
                 can_publish |-> TRUE, can_subscribe |-> TRUE],
     agents |-> << [agent_name |-> ""] >>]

get_token(p, identity) ==
    /\ resp' = HttpResponse("get_token", p, identity, 200,
                            [token |-> AccessToken(config[p], identity), url |-> "LIVEKIT_URL"])
    /\ UNCHANGED <<config, disk, ackModel, ackVoice, session>>

\* get_config: the projection of the in-memory document
ConfigView(cfg) ==
    [default_system_prompt |-> cfg.app.default_system_prompt,
     room_name |-> cfg.app.room_name,
     active_model |-> cfg.llm.model,
     models |-> cfg.llm.models,
     active_voice |-> cfg.tts.voice,
     voices |-> cfg.tts.voices]

get_config(p) ==
    /\ resp' = HttpResponse("get_config", p, None, 200, ConfigView(config[p]))
    /\ UNCHANGED <<config, disk, ackModel, ackVoice, session>>

\* set_model without its validation
ModelAllowedAny(cfg, id) == TRUE

\* set_model, line 96: the validation against the catalog
ModelAllowed(cfg, id) == id \in ModelIds(cfg)

\* set_model that answers without assigning the new id
AssignModelDropped(cfg, id) == cfg

\* set_model, line 103: config["llm"]["model"] = body.model
AssignModel(cfg, id) == [cfg EXCEPT !.llm.model = id]

\* a handler that answers before the file is rewritten
PersistSkipped(cfg) == disk

\* set_model, lines 106-107, and set_voice, lines 135-136: the file is
\* rewritten with the whole in-memory document
Persist(cfg) == YamlDump(cfg)

RejectedModel(p, id) ==
    HttpResponse("set_model", p, id, 400,
                 [detail |-> [unknown |-> id, allowed |-> ModelIds(config[p])]])

set_model(p, id) ==
    IF ~ModelAllowed(config[p], id)
    THEN /\ resp' = RejectedModel(p, id)
         /\ UNCHANGED <<config, disk, ackModel, ackVoice, session>>
    ELSE /\ config' = [config EXCEPT ![p] = AssignModel(@, id)]
         /\ disk' = Persist(config'[p])
         /\ resp' = HttpResponse("set_model", p, id, 200, [active_model |-> id])
         /\ ackModel' = id
         /\ UNCHANGED <<ackVoice, session>>

\* set_voice without its validation
VoiceAllowedAny(cfg, id) == TRUE

\* set_voice, line 125
VoiceAllowed(cfg, id) == id \in VoiceIds(cfg)

\* set_voice that rebuilds the document with the first catalog model active
AssignVoiceResetsModel(cfg, id) ==
    [cfg EXCEPT !.tts.voice = id, !.llm.model = cfg.llm.models[1].id]

\* set_voice, line 132: config["tts"]["voice"] = body.voice
AssignVoice(cfg, id) == [cfg EXCEPT !.tts.voice = id]

RejectedVoice(p, id) ==
    HttpResponse("set_voice", p, id, 400,
                 [detail |-> [unknown |-> id, allowed |-> VoiceIds(config[p])]])

set_voice(p, id) ==
    IF ~VoiceAllowed(config[p], id)
    THEN /\ resp' = RejectedVoice(p, id)
         /\ UNCHANGED <<config, disk, ackModel, ackVoice, session>>
    ELSE /\ config' = [config EXCEPT ![p] = AssignVoice(@, id)]
         /\ disk' = Persist(config'[p])
         /\ resp' = HttpResponse("set_voice", p, id, 200, [active_voice |-> id])
         /\ ackVoice' = id
         /\ UNCHANGED <<ackModel, session>>

\* _LOCAL_ENGINES with a cloud engine listed in it
LocalEnginesWithCloud == {"kokoro", "piper", "cartesia"}

\* _LOCAL_ENGINES
LocalEngines == {"kokoro", "piper"}

\* str.capitalize() on the engine names of the catalog
Capitalize(engine) ==
    CASE engine = "kokoro" -> "Kokoro"
      [] engine = "piper" -> "Piper"
      [] engine = "cartesia" -> "Cartesia"
      [] engine = "none" -> "None"
      [] OTHER -> engine

\* next((v for v in voices if v["id"] == voice_id), None): the index of the
\* first entry with that id, 0 when there is none
VoiceEntry(cfg, voice_id) ==
    LET hits == {i \in DOMAIN cfg.tts.voices : cfg.tts.voices[i].id = voice_id}
    IN  IF hits = {} THEN 0 ELSE CHOOSE i \in hits : \A j \in hits : i <= j

\* tts_status that catches URLError only: a socket timeout fails the request
TtsStatusTimeoutUncaught(cfg, outcome) ==
    LET voice_id == cfg.tts.voice
        k == VoiceEntry(cfg, voice_id)
        engine == cfg.tts.voices[k].engine
    IN  IF voice_id = "text_only"
        THEN [engine |-> "text_only", status |-> "ok", label |-> <<"Text Only">>, probed |-> FALSE]
        ELSE IF k = 0
        THEN [engine |-> "unknown", status |-> "error", label |-> <<"Unknown voice">>, probed |-> FALSE]
        ELSE IF engine \notin {"kokoro", "piper"}
        THEN [engine |-> engine, status |-> "ok",
              label |-> <<"Cloud", Capitalize(engine)>>, probed |-> FALSE]
        ELSE IF outcome = "responded"
        THEN [engine |-> engine, status |-> "online",
              label |-> <<Capitalize(engine)>>, probed |-> TRUE]
        ELSE IF outcome = "unreachable"
        THEN [engine |-> engine, status |-> "offline",
              label |-> <<Capitalize(engine)>>, probed |-> TRUE]
        ELSE [engine |-> engine, status |-> "failed",
              label |-> <<"Internal Server Error">>, probed |-> TRUE]

\* tts_status: the reply and whether the health URL was opened, given what
\* opening it would yield
TtsStatus(cfg, outcome) ==
    LET voice_id == cfg.tts.voice
        k == VoiceEntry(cfg, voice_id)
        engine == cfg.tts.voices[k].engine
    IN  IF voice_id = "text_only"
        THEN [engine |-> "text_only", status |-> "ok", label |-> <<"Text Only">>, probed |-> FALSE]
        ELSE IF k = 0
        THEN [engine |-> "unknown", status |-> "error", label |-> <<"Unknown voice">>, probed |-> FALSE]
        ELSE IF engine \notin LocalEngines
        THEN [engine |-> engine, status |-> "ok",
              label |-> <<"Cloud", Capitalize(engine)>>, probed |-> FALSE]
        ELSE IF outcome = "responded"
        THEN [engine |-> engine, status |-> "online",
              label |-> <<Capitalize(engine)>>, probed |-> TRUE]
        ELSE [engine |-> engine, status |-> "offline",
              label |-> <<Capitalize(engine)>>, probed |-> TRUE]

tts_status(p) ==
    \E outcome \in ProbeOutcomes :
        LET r == TtsStatus(config[p], outcome)
        IN  /\ resp' = HttpResponse("tts_status", p, IF r.probed THEN outcome ELSE None, 200, r)
            /\ UNCHANGED <<config, disk, ackModel, ackVoice, session>>


\* ------------------------------------------------------------------------
\* Session Orchestrator: agent.py
\* ------------------------------------------------------------------------

\* _GOOGLE_MODEL_PREFIXES
GoogleModelPrefixes == { <<"g", "e", "m", "i", "n", "i", "-">> }

\* the characters of the model identifiers in use
Chars(id) ==
    CASE id = "gpt-4o-mini" -> <<"g", "p", "t", "-", "4", "o", "-", "m", "i", "n", "i">>
      [] id = "gemini-2.0-flash" ->
            <<"g", "e", "m", "i", "n", "i", "-", "2", ".", "0", "-", "f", "l", "a", "s", "h">>
      [] id = "gemini" -> <<"g", "e", "m", "i", "n", "i">>
      [] id = "gemini-" -> <<"g", "e", "m", "i", "n", "i", "-">>
      [] id = "gemini_pro" -> <<"g", "e", "m", "i", "n", "i", "_", "p", "r", "o">>
      [] id = "Gemini-pro" -> <<"G", "e", "m", "i", "n", "i", "-", "p", "r", "o">>
      [] id = "gpt-gemini-1" -> <<"g", "p", "t", "-", "g", "e", "m", "i", "n", "i", "-", "1">>
      [] OTHER -> << >>

\* a test for the prefix anywhere in the identifier
StartsWithAnywhere(s, prefix) ==
    \E i \in 1..Len(s) :
        /\ i + Len(prefix) - 1 <= Len(s)
        /\ SubSeq(s, i, i + Len(prefix) - 1) = prefix

\* str.startswith(prefix)
StartsWith(s, prefix) ==
    /\ Len(prefix) <= Len(s)
    /\ SubSeq(s, 1, Len(prefix)) = prefix

\* a worker that keeps the active model it read when it was started
LoadConfigStale(doc) == [YamlLoad(doc) EXCEPT !.llm.model = ModelCatalog[1].id]

\* _load_config: yaml.safe_load of the file as it is now
LoadConfig(doc) == YamlLoad(doc)

NoLlm == [plugin |-> None, model |-> None]

\* _build_llm
BuildLlm(cfg) ==
    LET model == cfg.llm.model
    IN  IF \E prefix \in GoogleModelPrefixes : StartsWith(Chars(model), prefix)
        THEN [plugin |-> "google", model |-> model]
        ELSE [plugin |-> "openai", model |-> model]

NoTts == [kind |-> None, engine |-> None, probe |-> None, raised |-> None]

\* _build_tts without the try/except around the probe
BuildTtsProbeRaises(cfg, outcome) ==
    LET engine == cfg.tts.engine
    IN  IF engine \in {"cartesia", "piper"}
        THEN [kind |-> "client", engine |-> engine, probe |-> None, raised |-> None]
        ELSE IF engine = "kokoro"
        THEN IF outcome = "responded"
             THEN [kind |-> "client", engine |-> "kokoro", probe |-> outcome, raised |-> None]
             ELSE [kind |-> "error", engine |-> "kokoro", probe |-> outcome, raised |-> "URLError"]
        ELSE [kind |-> "error", engine |-> engine, probe |-> None, raised |-> "ValueError"]

\* _build_tts that falls back to text-only for a name it does not know
BuildTtsUnknownAbsent(cfg, outcome) ==
    LET engine == cfg.tts.engine
    IN  IF engine \in {"cartesia", "piper"}
        THEN [kind |-> "client", engine |-> engine, probe |-> None, raised |-> None]
        ELSE IF engine = "kokoro"
        THEN IF outcome = "responded"
             THEN [kind |-> "client", engine |-> "kokoro", probe |-> outcome, raised |-> None]
             ELSE [kind |-> "absent", engine |-> "kokoro", probe |-> outcome, raised |-> None]
        ELSE [kind |-> "absent", engine |-> engine, probe |-> None, raised |-> None]

\* _build_tts that probes piper the way it probes kokoro
BuildTtsPiperProbed(cfg, outcome) ==
    LET engine == cfg.tts.engine
    IN  IF engine = "cartesia"
        THEN [kind |-> "client", engine |-> engine, probe |-> None, raised |-> None]
        ELSE IF engine \in {"kokoro", "piper"}
        THEN IF outcome = "responded"
             THEN [kind |-> "client", engine |-> engine, probe |-> outcome, raised |-> None]
             ELSE [kind |-> "absent", engine |-> engine, probe |-> outcome, raised |-> None]
        ELSE [kind |-> "error", engine |-> engine, probe |-> None, raised |-> "ValueError"]

\* _build_tts: what it returns (a client, None) or raises, and whether it
\* probed, given what opening the kokoro health URL would yield
BuildTts(cfg, outcome) ==
    LET engine == cfg.tts.engine
    IN  IF engine = "cartesia"
        THEN [kind |-> "client", engine |-> "cartesia", probe |-> None, raised |-> None]
        ELSE IF engine = "kokoro"
        THEN IF outcome = "responded"
             THEN [kind |-> "client", engine |-> "kokoro", probe |-> outcome, raised |-> None]
             ELSE [kind |-> "absent", engine |-> "kokoro", probe |-> outcome, raised |-> None]
        ELSE IF engine = "piper"
        THEN [kind |-> "client", engine |-> "piper", probe |-> None, raised |-> None]
        ELSE [kind |-> "error", engine |-> engine, probe |-> None, raised |-> "ValueError"]

NoOptions ==
    [audio_input |-> FALSE, audio_output |-> FALSE, text_input |-> FALSE,
     text_output |-> FALSE, delete_room_on_close |-> FALSE]

\* session.start with outbound audio left at its default
RoomOptionsAudioAlways(tts) ==
    [audio_input |-> FALSE, audio_output |-> TRUE, text_input |-> TRUE,
     text_output |-> TRUE, delete_room_on_close |-> TRUE]

\* room_io.RoomOptions(...) of session.start: text_input and text_output are
\* left at their defaults
RoomOptions(tts) ==
    [audio_input |-> FALSE,
     audio_output |-> (tts.kind # "absent"),
     text_input |-> TRUE,
     text_output |-> TRUE,
     delete_room_on_close |-> TRUE]

NoPrompt == <<"none", 0>>

Payloads == {<<"text", n>> : n \in 1..MaxPayload}

NoReply == [method |-> None, ret |-> None, raised |-> None]

NoConfig == MkConfig(None, None, None)

\* a job before its entrypoint has run
NewSession ==
    [pc |-> "load_config",
     cfg |-> NoConfig,
     tts |-> NoTts,
     instructions |-> NoPrompt,
     llm |-> NoLlm,
     connected |-> FALSE,
     rpcs |-> {},
     started |-> FALSE,
     options |-> NoOptions,
     generating |-> FALSE,
     reply |-> NoReply,
     lastPayload |-> NoPrompt,
     ackModelAtLoad |-> None,
     ackVoiceAtLoad |-> None]

\* the worker accepts a job for a room: entrypoint(ctx) is called
JobDispatch ==
    /\ session.pc \in {"idle", "ended", "failed"}
    /\ session' = NewSession
    /\ UNCHANGED <<config, disk, resp, ackModel, ackVoice>>

\* an entrypoint that connects first and never reads the file
EntryLoadConfigSkipped ==
    /\ session.pc = "load_config"
    /\ session' = [session EXCEPT !.pc = "connect"]
    /\ UNCHANGED <<config, disk, resp, ackModel, ackVoice>>

\* entrypoint, line 115: config = _load_config()
EntryLoadConfig ==
    /\ session.pc = "load_config"
    /\ session' = [session EXCEPT !.pc = "build_tts",
                                  !.cfg = LoadConfig(disk),
                                  !.ackModelAtLoad = ackModel,
                                  !.ackVoiceAtLoad = ackVoice]
    /\ UNCHANGED <<config, disk, resp, ackModel, ackVoice>>

\* entrypoint, line 117: tts = _build_tts(config); a raise ends the job
EntryBuildTts ==
    /\ session.pc = "build_tts"
    /\ \E outcome \in ProbeOutcomes :
          LET r == BuildTts(session.cfg, outcome)
          IN  session' = [session EXCEPT !.tts = r,
                                         !.pc = IF r.raised # None THEN "failed" ELSE "agent"]
    /\ UNCHANGED <<config, disk, resp, ackModel, ackVoice>>

\* entrypoint, line 119: agent = Agent(instructions=...)
EntryAgent ==
    /\ session.pc = "agent"
    /\ session' = [session EXCEPT !.pc = "build_llm",
                                  !.instructions = session.cfg.app.default_system_prompt]
    /\ UNCHANGED <<config, disk, resp, ackModel, ackVoice>>

\* entrypoint, lines 121-125: AgentSession(llm=_build_llm(config), tts=tts)
EntryBuildLlm ==
    /\ session.pc = "build_llm"
    /\ session' = [session EXCEPT !.pc = "connect", !.llm = BuildLlm(session.cfg)]
    /\ UNCHANGED <<config, disk, resp, ackModel, ackVoice>>

\* entrypoint, line 130: await ctx.connect()
EntryConnect ==
    /\ session.pc = "connect"
    /\ session' = [session EXCEPT !.pc = "register_update", !.connected = TRUE]
    /\ UNCHANGED <<config, disk, resp, ackModel, ackVoice>>

\* entrypoint, line 133: register_rpc_method("update_system_prompt")
EntryRegisterUpdatePrompt ==
    /\ session.pc = "register_update"
    /\ session.connected
    /\ session' = [session EXCEPT !.pc = "register_interrupt",
                                  !.rpcs = @ \cup {"update_system_prompt"}]
    /\ UNCHANGED <<config, disk, resp, ackModel, ackVoice>>

\* an entrypoint that starts the session before interrupt is registered
EntryRegisterInterruptSkipped ==
    /\ session.pc = "register_interrupt"
    /\ session.connected
    /\ session' = [session EXCEPT !.pc = "start"]
    /\ UNCHANGED <<config, disk, resp, ackModel, ackVoice>>

\* entrypoint, line 140: register_rpc_method("interrupt")
EntryRegisterInterrupt ==
    /\ session.pc = "register_interrupt"
    /\ session.connected
    /\ session' = [session EXCEPT !.pc = "start", !.rpcs = @ \cup {"interrupt"}]
    /\ UNCHANGED <<config, disk, resp, ackModel, ackVoice>>

\* entrypoint, lines 151-163: await session.start(...)
EntryStart ==
    /\ session.pc = "start"
    /\ session' = [session EXCEPT !.pc = "running",
                                  !.started = TRUE,
                                  !.options = RoomOptions(session.tts)]
    /\ UNCHANGED <<config, disk, resp, ackModel, ackVoice>>

\* on_update_prompt that replaces the default prompt only: a second text is
\* logged and answered but never reaches the agent
UpdateInstructionsOnce(instructions, payload) ==
    IF instructions = DefaultPrompt THEN payload ELSE instructions

\* on_update_prompt, line 135: agent.update_instructions(data.payload)
UpdateInstructions(instructions, payload) == payload

\* on_update_prompt that also stores the text as the default prompt
OnUpdatePromptPersisted(payload) ==
    /\ session.connected
    /\ "update_system_prompt" \in session.rpcs
    /\ session' = [session EXCEPT !.instructions = UpdateInstructions(@, payload),
                                  !.lastPayload = payload,
                                  !.reply = [method |-> "update_system_prompt",
                                             ret |-> "ok", raised |-> None]]
    /\ config' = [config EXCEPT ![Primary].app.default_system_prompt = payload]
    /\ disk' = YamlDump(config'[Primary])
    /\ UNCHANGED <<resp, ackModel, ackVoice>>

\* on_update_prompt; lastPayload is history: the payload of the last invocation
OnUpdatePrompt(payload) ==
    /\ session.connected
    /\ "update_system_prompt" \in session.rpcs
    /\ session' = [session EXCEPT !.instructions = UpdateInstructions(@, payload),
                                  !.lastPayload = payload,
                                  !.reply = [method |-> "update_system_prompt",
                                             ret |-> "ok", raised |-> None]]
    /\ UNCHANGED <<config, disk, resp, ackModel, ackVoice>>

\* what AgentSession.interrupt() can do: it raises RuntimeError when the
\* session is not running or has nothing to stop
InterruptOutcomes(s) ==
    IF ~s.started THEN {"RuntimeError"}
    ELSE IF s.generating THEN {"interrupted"}
    ELSE {"nothing", "RuntimeError"}

\* on_interrupt without its try/except
InterruptReplyUncaught(outcome) ==
    IF outcome = "RuntimeError"
    THEN [method |-> "interrupt", ret |-> None, raised |-> "RuntimeError"]
    ELSE [method |-> "interrupt", ret |-> "ok", raised |-> None]

\* on_interrupt, lines 142-147: RuntimeError is caught, "ok" is returned
InterruptReply(outcome) ==
    [method |-> "interrupt", ret |-> "ok", raised |-> None]

OnInterrupt ==
    /\ session.connected
    /\ "interrupt" \in session.rpcs
    /\ \E outcome \in InterruptOutcomes(session) :
          session' = [session EXCEPT !.generating = IF outcome = "interrupted" THEN FALSE ELSE @,
                                     !.reply = InterruptReply(outcome)]
    /\ UNCHANGED <<config, disk, resp, ackModel, ackVoice>>

\* a user text arrives on lk.chat and the agent starts to answer
GenerationStart ==
    /\ session.pc = "running"
    /\ ~session.generating
    /\ session' = [session EXCEPT !.generating = TRUE]
    /\ UNCHANGED <<config, disk, resp, ackModel, ackVoice>>

\* the answer is complete
GenerationEnd ==
    /\ session.pc = "running"
    /\ session.generating
    /\ session' = [session EXCEPT !.generating = FALSE]
    /\ UNCHANGED <<config, disk, resp, ackModel, ackVoice>>

\* the transport connection closes: the session ends and its room is deleted
Disconnect ==
    /\ session.pc = "running"
    /\ session' = [NewSession EXCEPT !.pc = "ended"]
    /\ UNCHANGED <<config, disk, resp, ackModel, ackVoice>>

\* ------------------------------------------------------------------------
\* Specifications
\* ------------------------------------------------------------------------

\* config.yaml as deployed: the first catalog model is active, and tts.engine is
\* the engine of the active voice; or tts.engine names an engine nobody knows
InitialConfigs ==
    {MkConfig(ModelCatalog[1].id, VoiceCatalog[i].id, VoiceCatalog[i].engine) :
        i \in {j \in DOMAIN VoiceCatalog : VoiceCatalog[j].engine \in EngineNames}}
    \cup {MkConfig(ModelCatalog[1].id, VoiceCatalog[1].id, e) :
            e \in {x \in EngineNames : \A j \in DOMAIN VoiceCatalog : VoiceCatalog[j].engine # x}}

Init ==
    /\ \E c \in InitialConfigs :
          /\ config = [p \in Services |-> c]
          /\ disk = YamlDump(c)
    /\ resp = NoResponse
    /\ ackModel = None
    /\ ackVoice = None
    /\ session = [NewSession EXCEPT !.pc = "idle"]

Http(p) ==
    \/ \E identity \in Identities : get_token(p, identity)
    \/ get_config(p)
    \/ \E id \in ModelRequests : set_model(p, id)
    \/ \E id \in VoiceRequests : set_voice(p, id)
    \/ tts_status(p)

Entrypoint ==
    \/ EntryLoadConfig
    \/ EntryBuildTts
    \/ EntryAgent
    \/ EntryBuildLlm
    \/ EntryConnect
    \/ EntryRegisterUpdatePrompt
    \/ EntryRegisterInterrupt
    \/ EntryStart

Rpc ==
    \/ \E payload \in Payloads : OnUpdatePrompt(payload)
    \/ OnInterrupt

Runtime ==
    \/ JobDispatch
    \/ GenerationStart
    \/ GenerationEnd
    \/ Disconnect

\* the repository as it runs: one Control Service process and the agent worker
Next ==
    \/ Http(Primary)
    \/ Entrypoint
    \/ Rpc
    \/ Runtime

Spec == Init /\ [][Next]_vars

\* llm.models of a deployment that lists identifiers near the Google prefix
WideModelCatalog ==
    << [id |-> "gpt-4o-mini", label |-> "GPT-4o mini"],
       [id |-> "gemini-2.0-flash", label |-> "Gemini 2.0 Flash"],
       [id |-> "gemini", label |-> "no dash"],
       [id |-> "gemini-", label |-> "prefix only"],
       [id |-> "gemini_pro", label |-> "underscore"],
       [id |-> "Gemini-pro", label |-> "capital"],
       [id |-> "gpt-gemini-1", label |-> "prefix inside"] >>

WideModelRequests ==
    {WideModelCatalog[i].id : i \in DOMAIN WideModelCatalog} \cup {"no-such-model"}

\* the model selection alone: a file with the wide catalog and any of its
\* models active, set_model requests, and sessions that build their LLM
InitLlm ==
    /\ \E c \in InitialConfigs : \E i \in DOMAIN WideModelCatalog :
          LET wide == [c EXCEPT !.llm.models = WideModelCatalog,
                                !.llm.model = WideModelCatalog[i].id]
          IN  /\ config = [p \in Services |-> wide]
              /\ disk = YamlDump(wide)
    /\ resp = NoResponse
    /\ ackModel = None
    /\ ackVoice = None
    /\ session = [NewSession EXCEPT !.pc = "idle"]

NextLlm ==
    \/ \E id \in WideModelRequests : set_model(Primary, id)
    \/ Entrypoint
    \/ JobDispatch
    \/ Disconnect

SpecLlm == InitLlm /\ [][NextLlm]_vars

\* two Control Service processes that share config.yaml, each with the
\* document it read when it was started
NextWriters == \E p \in Services : Http(p)

SpecWriters == Init /\ [][NextWriters]_vars


\* ------------------------------------------------------------------------
\* Properties
\* ------------------------------------------------------------------------

KnownEngines == {"cartesia", "kokoro", "piper"}

ProbeFailures == {"unreachable", "timeout"}

\* the request of response r named an id of the catalog it is validated against
InCatalog(r, cfg) ==
    IF r.op = "set_model" THEN r.arg \in ModelIds(cfg) ELSE r.arg \in VoiceIds(cfg)

\* the session's entrypoint has read the file
Loaded == session.pc \notin {"idle", "load_config", "ended"}

\* C1: a set_model or set_voice request whose id is not in the catalog is
\* answered with status 400 and changes neither the in-memory documents nor
\* the file.
C1_UnknownIdRejected ==
    [][ (/\ resp'.op \in {"set_model", "set_voice"}
         /\ ~InCatalog(resp', config[resp'.svc]))
        => (/\ resp'.status = 400
            /\ config' = config
            /\ disk' = disk) ]_vars

C1_Witness ==
    /\ resp.op = "set_voice"
    /\ resp.arg = "no-such-voice"
    /\ resp.status = 400
    /\ ackVoice # None
    /\ ackModel # None

\* C2: when set_model or set_voice answers 200, the file has been rewritten
\* with the service's in-memory document, which holds the new id; and a
\* get_config answered after an acknowledged update returns the id of the
\* last acknowledged one as active_model / active_voice.
C2_UpdatePersistedAndVisible ==
    /\ (resp.op = "set_model" /\ resp.status = 200)
          => /\ YamlLoad(disk) = config[resp.svc]
             /\ YamlLoad(disk).llm.model = resp.arg
             /\ resp.body.active_model = resp.arg
    /\ (resp.op = "set_voice" /\ resp.status = 200)
          => /\ YamlLoad(disk) = config[resp.svc]
             /\ YamlLoad(disk).tts.voice = resp.arg
             /\ resp.body.active_voice = resp.arg
    /\ (resp.op = "get_config" /\ ackModel # None)
          => resp.body.active_model = ackModel
    /\ (resp.op = "get_config" /\ ackVoice # None)
          => resp.body.active_voice = ackVoice

C2_Witness ==
    /\ resp.op = "get_config"
    /\ ackModel = "gemini-2.0-flash"
    /\ ackVoice = "text_only"
    /\ resp.body.active_model = "gemini-2.0-flash"
    /\ resp.body.active_voice = "text_only"

ConfigConsistent(cfg) ==
    /\ cfg.llm.model \in ModelIds(cfg)
    /\ cfg.tts.voice \in VoiceIds(cfg) \cup {"text_only"}

\* C3: in every reachable state the active model is an id of llm.models and
\* the active voice is an id of tts.voices or text_only, in every in-memory
\* document and in the file.
C3_ActiveIdsInCatalog ==
    /\ \A p \in Services : ConfigConsistent(config[p])
    /\ ConfigConsistent(YamlLoad(disk))

C3_Witness ==
    /\ resp.op = "set_model"
    /\ resp.status = 400
    /\ ackModel = "gemini-2.0-flash"
    /\ ackVoice = "cartesia_sonic"

\* the TTS backend that voice id v stands for: no client for text_only, else
\* the engine of v's catalog entry
ResolvedFromVoice(tts, v) ==
    IF v = "text_only"
    THEN tts.kind = "absent"
    ELSE /\ tts.kind \in {"client", "absent"}
         /\ tts.engine = VoiceCatalog[VoiceEntry(MkConfig(None, None, None), v)].engine

\* C4: a session that read the file after set_voice(v) was acknowledged
\* resolves the TTS backend of v: the engine of v's catalog entry, or no
\* client when v is text_only.
C4_VoiceChangeObserved ==
    (session.ackVoiceAtLoad # None /\ session.tts.kind \in {"client", "absent"})
        => ResolvedFromVoice(session.tts, session.ackVoiceAtLoad)

\* C5: a session that read the file after set_model(m) was acknowledged, m
\* being the last acknowledged one at that time, holds m as its configured
\* model and builds its LLM backend from m.
C5_ModelChangeObserved ==
    (session.ackModelAtLoad # None /\ Loaded)
        => /\ session.cfg.llm.model = session.ackModelAtLoad
           /\ session.llm.plugin # None => session.llm.model = session.ackModelAtLoad

C5_Witness ==
    /\ session.ackModelAtLoad = "gemini-2.0-flash"
    /\ session.llm.model = "gemini-2.0-flash"
    /\ session.llm.plugin # None

\* C6: whenever the interrupt procedure is registered it can be invoked, and
\* every invocation returns "ok" and raises nothing to the caller.
C6_InterruptAlwaysOk ==
    /\ (session.connected /\ "interrupt" \in session.rpcs) => ENABLED OnInterrupt
    /\ session.reply.method = "interrupt"
          => (session.reply.ret = "ok" /\ session.reply.raised = None)

\* interrupt answered between its registration and session start
C6_Witness ==
    /\ session.pc = "start"
    /\ ~session.started
    /\ session.reply.method = "interrupt"
    /\ session.reply.ret = "ok"

\* C7: a started session has outbound audio enabled exactly when the TTS
\* selector returned a client (disabled exactly when it returned None), and
\* always has inbound audio disabled, text in and out enabled and the room
\* deleted on close.
C7_StartOptions ==
    session.started
        => /\ session.options.audio_output <=> (session.tts.kind = "client")
           /\ ~session.options.audio_output <=> (session.tts.kind = "absent")
           /\ ~session.options.audio_input
           /\ session.options.text_input
           /\ session.options.text_output
           /\ session.options.delete_room_on_close

C7_Witness ==
    /\ session.started
    /\ session.tts.kind = "absent"
    /\ ~session.options.audio_output
    /\ session.options.text_output

\* C8: after a failed kokoro probe the selector returned None and raised
\* nothing; the job is not aborted, every remaining setup step can be taken,
\* and the started session is connected, has both procedures registered and
\* runs without outbound audio.
C8_ProbeFailureDegrades ==
    session.tts.probe \in ProbeFailures
        => /\ session.tts.kind = "absent"
           /\ session.tts.raised = None
           /\ session.pc \notin {"failed", "idle", "ended", "load_config", "build_tts"}
           /\ session.pc # "running" => ENABLED Entrypoint
           /\ session.started
                 => /\ session.connected
                    /\ session.rpcs = {"update_system_prompt", "interrupt"}
                    /\ ~session.options.audio_output
                    /\ session.options.text_input /\ session.options.text_output

C8_Witness ==
    /\ session.tts.probe = "timeout"
    /\ session.pc = "running"
    /\ session.started
    /\ session.rpcs = {"update_system_prompt", "interrupt"}
    /\ ~session.options.audio_output

\* C9: a session whose file names a TTS engine other than cartesia, kokoro,
\* piper never gets past the selector: the selector raises ValueError, no
\* client and no None is returned, and the session is never connected or
\* started.
C9_UnknownEngineAborts ==
    (Loaded /\ session.cfg.tts.engine \notin KnownEngines)
        => /\ session.pc \in {"build_tts", "failed"}
           /\ ~session.started
           /\ ~session.connected
           /\ session.tts.kind \notin {"client", "absent"}
           /\ session.pc = "failed" => session.tts.raised = "ValueError"

C9_Witness ==
    /\ session.pc = "failed"
    /\ session.cfg.tts.engine = "espeak"
    /\ session.tts.raised = "ValueError"

Configured ==
    /\ session.cfg # NoConfig
    /\ session.tts.kind \in {"client", "absent"}
    /\ session.llm.plugin # None
    /\ session.instructions # NoPrompt

\* C11 as claimed: the file is read and the backends are resolved only on a
\* session whose transport connection is established.
C11_ConfigureAfterConnect ==
    (session.cfg # NoConfig \/ session.tts.kind # None \/ session.llm.plugin # None)
        => session.connected

\* C11 as amended: a session is configured before it connects, and started
\* only after both: whenever the connection is established the file has been
\* read and both backends and the agent exist, and a started session is
\* connected.
C11_ConfigureBeforeConnect ==
    /\ session.connected => Configured
    /\ session.started => (session.connected /\ Configured)
    /\ session.pc \in {"build_tts", "agent", "build_llm", "connect"} => ~session.connected

C11_Witness ==
    /\ session.connected
    /\ ~session.started
    /\ Configured
    /\ session.pc = "register_update"

\* C12: every update_system_prompt invocation returns "ok", and the agent's
\* instructions are the payload of the last invocation of this session, or
\* the configured default prompt when there was none.
C12_LastPromptWins ==
    /\ session.reply.method = "update_system_prompt"
          => (session.reply.ret = "ok" /\ session.reply.raised = None)
    /\ session.instructions # NoPrompt
          => session.instructions =
                IF session.lastPayload = NoPrompt
                THEN session.cfg.app.default_system_prompt
                ELSE session.lastPayload
    /\ (session.connected /\ "update_system_prompt" \in session.rpcs)
          => \A payload \in Payloads : ENABLED OnUpdatePrompt(payload)

\* a started session with a generation in flight whose prompt was replaced,
\* and an interrupt was answered after that
C12_Witness ==
    /\ session.started
    /\ session.generating
    /\ session.lastPayload \in Payloads
    /\ session.instructions = session.lastPayload
    /\ session.reply.method = "interrupt"


\* the engine of the catalog entry of the active voice of cfg
ActiveVoiceEngine(cfg) ==
    LET hits == {i \in DOMAIN VoiceCatalog : VoiceCatalog[i].id = cfg.tts.voice}
    IN  IF hits = {} THEN None ELSE VoiceCatalog[CHOOSE i \in hits : TRUE].engine

\* C13: when the active voice is text_only or a catalog voice of a cloud
\* engine, tts_status answers status ok and opens no health URL.
C13_NoProbeForCloudOrTextOnly ==
    (/\ resp.op = "tts_status"
     /\ \/ config[resp.svc].tts.voice = "text_only"
        \/ ActiveVoiceEngine(config[resp.svc]) \notin {"kokoro", "piper", None})
        => /\ resp.status = 200
           /\ resp.body.status = "ok"
           /\ ~resp.body.probed

C13_Witness ==
    /\ resp.op = "tts_status"
    /\ config[resp.svc].tts.voice = "cartesia_sonic"
    /\ resp.body.engine = "cartesia"
    /\ resp.body.status = "ok"

C17_TokenGrants ==
    resp.op = "get_token"
        => /\ resp.status = 200
           /\ resp.arg \in Identities
           /\ resp.body.token.identity = resp.arg
           /\ resp.body.token.grants =
                 [room_join |-> TRUE, room |-> RoomName,
                  can_publish |-> TRUE, can_subscribe |-> TRUE]
           /\ resp.body.token.grants.room = YamlLoad(disk).app.room_name

C17_Witness ==
    /\ resp.op = "get_token"
    /\ resp.arg = "bob"
    /\ resp.body.token.identity = "bob"
    /\ ackModel # None
    /\ ackVoice # None


\* C15: with two services on one file, the file is always the whole document
\* of the service that wrote last; an acknowledged model (voice) is missing
\* from the file only when another service, whose copy does not hold it,
\* wrote after the service that holds it.  The lost update itself is the
\* state C15_Witness.
C15_StaleCopyOverwrites ==
    /\ \E q \in Services : YamlLoad(disk) = config[q]
    /\ (resp.op \in {"set_model", "set_voice"} /\ resp.status = 200)
          => YamlLoad(disk) = config[resp.svc]
    /\ (ackModel # None /\ YamlLoad(disk).llm.model # ackModel)
          => \E p, q \in Services :
                /\ p # q
                /\ config[p].llm.model = ackModel
                /\ config[q].llm.model # ackModel
                /\ YamlLoad(disk) = config[q]
    /\ (ackVoice # None /\ YamlLoad(disk).tts.voice # ackVoice)
          => \E p, q \in Services :
                /\ p # q
                /\ config[p].tts.voice = ackVoice
                /\ config[q].tts.voice # ackVoice
                /\ YamlLoad(disk) = config[q]

\* a set_model and a set_voice were both answered 200, by different services,
\* and the file no longer holds the acknowledged model
C15_Witness ==
    /\ ackModel # None
    /\ ackVoice # None
    /\ resp.op = "set_voice"
    /\ resp.status = 200
    /\ YamlLoad(disk).tts.voice = ackVoice
    /\ YamlLoad(disk).llm.model # ackModel
    /\ config[Primary].llm.model = ackModel
    /\ resp.svc # Primary

C18_Step ==
    /\ \A p \in Services : config'[p].app = config[p].app
    /\ YamlLoad(disk').app = YamlLoad(disk).app
    /\ (config' # config \/ disk' # disk)
          => /\ resp'.status = 200
             /\ resp'.op \in {"set_model", "set_voice"}
             /\ session' = session
    /\ (resp' # resp /\ resp'.op = "set_model" /\ resp'.status = 200)
          => /\ config' = [config EXCEPT ![resp'.svc].llm.model = resp'.arg]
             /\ YamlLoad(disk') = [config[resp'.svc] EXCEPT !.llm.model = resp'.arg]
    /\ (resp' # resp /\ resp'.op = "set_voice" /\ resp'.status = 200)
          => /\ config' = [config EXCEPT ![resp'.svc].tts.voice = resp'.arg]
             /\ YamlLoad(disk') = [config[resp'.svc] EXCEPT !.tts.voice = resp'.arg]
    /\ (resp' # resp /\ ~(resp'.op \in {"set_model", "set_voice"} /\ resp'.status = 200))
          => (config' = config /\ disk' = disk)

\* C18: no step changes app.default_system_prompt or app.room_name, in memory
\* or in the file; memory and file change only in a set_model / set_voice
\* answered 200, which changes llm.model / tts.voice and nothing else; the
\* other requests and the session's remote procedures change neither.
C18_AppFieldsImmutable == [][C18_Step]_vars

\* after an acknowledged set_model and set_voice and a replaced prompt, the
\* configured prompt and room are the initial ones
C18_Witness ==
    /\ ackModel # None
    /\ ackVoice # None
    /\ session.lastPayload \in Payloads
    /\ session.instructions # DefaultPrompt
    /\ config[Primary].app = [default_system_prompt |-> DefaultPrompt, room_name |-> RoomName]
    /\ YamlLoad(disk).app = config[Primary].app
    /\ session.reply.method = "update_system_prompt"

\* C19: a procedure is registered only on a connected session, and session
\* start is requested only when both update_system_prompt and interrupt are
\* registered.
C19_RegisteredBeforeStart ==
    /\ session.rpcs # {} => session.connected
    /\ ENABLED EntryRegisterUpdatePrompt => session.connected
    /\ ENABLED EntryRegisterInterrupt => session.connected
    /\ (session.started \/ ENABLED EntryStart)
          => /\ session.connected
             /\ session.rpcs = {"update_system_prompt", "interrupt"}

C19_Witness ==
    /\ session.pc = "start"
    /\ ~session.started
    /\ session.connected
    /\ session.rpcs = {"update_system_prompt", "interrupt"}

\* C20: with one Control Service process, the file always equals the
\* in-memory document and holds the last acknowledged model and the last
\* acknowledged voice, whatever the order of the requests.
C20_NoLostUpdate ==
    /\ YamlLoad(disk) = config[Primary]
    /\ disk = YamlDump(config[Primary])
    /\ ackModel # None => (config[Primary].llm.model = ackModel
                           /\ YamlLoad(disk).llm.model = ackModel)
    /\ ackVoice # None => (config[Primary].tts.voice = ackVoice
                           /\ YamlLoad(disk).tts.voice = ackVoice)

\* a set_model was answered after a set_voice that changed the voice, and the
\* file holds both
C20_Witness ==
    /\ resp.op = "set_model"
    /\ resp.status = 200
    /\ ackVoice # None
    /\ ackModel = ModelCatalog[2].id
    /\ YamlLoad(disk).llm.model = ackModel
    /\ YamlLoad(disk).tts.voice = ackVoice
    /\ ackVoice = "piper_amy"


\* the identifiers of the wide catalog that begin with gemini-
GeminiPrefixed == {"gemini-2.0-flash", "gemini-"}

\* C16: the LLM built for a session is the Google adapter exactly when the
\* active model of the configuration it loaded begins with gemini-, the
\* OpenAI adapter otherwise, with that model; whatever was built or
\* requested before.
C16_LlmByPrefix ==
    session.llm.plugin # None
        => /\ session.cfg # NoConfig
           /\ session.llm.model = session.cfg.llm.model
           /\ session.llm.plugin =
                 IF session.cfg.llm.model \in GeminiPrefixed THEN "google" ELSE "openai"
           /\ session.llm = BuildLlm(session.cfg)

\* a session built the OpenAI adapter for an identifier that holds gemini-
\* inside, made active by an acknowledged set_model
C16_Witness ==
    /\ session.llm.plugin = "openai"
    /\ session.llm.model = "gpt-gemini-1"
    /\ ackModel = "gpt-gemini-1"
    /\ session.connected

====
